---- MODULE Spec2Model ----
(***************************************************************************)
(* Model of the iscoinalpha1 token contract (iscoinalpha1.cpp / .hpp):     *)
(* the ledger tables, the staking tables, the boost schedule, the fee and  *)
(* boost distribution and the self-rescheduling update action.             *)
(*                                                                         *)
(* Numbers.  The contract computes on int64_t amounts and on IEEE-754      *)
(* binary32 floats.  TLC integers are 32 bits wide, so an int64_t is kept  *)
(* as a pair <<hi, lo>> meaning hi * 2^24 + lo with 0 <= lo < 2^24, and a  *)
(* non-negative float as a pair <<m, e>> meaning m * 2^e with              *)
(* 2^23 <= m < 2^24 (or <<0, 0>> for 0.0).  Float operations round to      *)
(* nearest, ties to even, as the hardware / softfloat does.  All amounts   *)
(* of the model stay below 2^47, far from the int64_t overflow.            *)
(***************************************************************************)
EXTENDS Integers, Sequences, FiniteSets, TLC

----------------------------------------------------------------------------
(* int64_t                                                                  *)

B24 == 2^24

B23 == 2^23

B12 == 2^12

I64(n) == <<n \div B24, n % B24>>

I64Zero == <<0, 0>>

I64Add(a, b) ==
    LET lo == a[2] + b[2]
    IN  <<a[1] + b[1] + (lo \div B24), lo % B24>>

I64Sub(a, b) ==
    LET lo == a[2] - b[2]
    IN  <<a[1] - b[1] + (lo \div B24), lo % B24>>

I64Less(a, b) == a[1] < b[1] \/ (a[1] = b[1] /\ a[2] < b[2])

I64Leq(a, b) == a = b \/ I64Less(a, b)

\* int64_t * int64_t for a small right operand (a stake weight, at most 100)
I64MulSmall(a, w) ==
    LET lo == a[2] \div B12
        ll == a[2] % B12
        p0 == ll * w
        p1 == lo * w + (p0 \div B12)
    IN  <<a[1] * w + (p1 \div B12), (p1 % B12) * B12 + (p0 % B12)>>

----------------------------------------------------------------------------
(* float (binary32), non-negative values                                    *)

F32Zero == <<0, 0>>

\* number of bits of n > 0
BitLen(n) == CHOOSE k \in 1..31 : 2^(k-1) <= n /\ (k = 31 \/ n < 2^k)

\* round to nearest even: m0 is the kept part, rest the dropped part out of
\* 2 * half; e the exponent of m0's unit
F32Round(m0, rest, half, sticky, e) ==
    LET up == rest > half \/ (rest = half /\ (sticky \/ m0 % 2 = 1))
        m  == IF up THEN m0 + 1 ELSE m0
    IN  IF m = B24 THEN <<B23, e + 1>> ELSE <<m, e>>

\* (float) of a non-negative int64_t below 2^48
F32FromI64(a) ==
    IF a[1] = 0
    THEN IF a[2] = 0 THEN F32Zero
         ELSE LET s == 24 - BitLen(a[2]) IN <<a[2] * 2^s, -s>>
    ELSE LET n == BitLen(a[1])
         IN  F32Round(a[1] * 2^(24-n) + (a[2] \div 2^n), a[2] % 2^n, 2^(n-1), FALSE, n)

\* float * float
F32Mul(x, y) ==
    IF x[1] = 0 \/ y[1] = 0 THEN F32Zero
    ELSE LET a1 == x[1] \div B12
             a0 == x[1] % B12
             b1 == y[1] \div B12
             b0 == y[1] % B12
             mid == a1 * b0 + a0 * b1
             low == a0 * b0 + (mid % B12) * B12
             lo == low % B24
             hi == a1 * b1 + (mid \div B12) + (low \div B24)
             e  == x[2] + y[2]
         IN  IF hi >= B23
             THEN F32Round(hi, lo, B23, FALSE, e + 24)
             ELSE F32Round(2 * hi + (lo \div B23), lo % B23, B23 \div 2, FALSE, e + 23)

\* one step of the long division: 7 more quotient bits
DivStep(qr, d) == <<qr[1] * 128 + ((qr[2] * 128) \div d), (qr[2] * 128) % d>>

\* float / float, y > 0
F32Div(x, y) ==
    IF x[1] = 0 THEN F32Zero
    ELSE LET d  == y[1]
             s0 == <<x[1] \div d, x[1] % d>>
             s4 == DivStep(DivStep(DivStep(DivStep(s0, d), d), d), d)
             Q  == s4[1]            \* floor(x.m * 2^28 / y.m), in (2^27, 2^29)
             st == s4[2] # 0
             e  == x[2] - y[2] - 28
         IN  IF Q >= 2^28
             THEN F32Round(Q \div 32, Q % 32, 16, st, e + 5)
             ELSE F32Round(Q \div 16, Q % 16, 8, st, e + 4)

\* (int64_t) of a non-negative float below 2^48: truncation
I64FromF32(x) ==
    IF x[1] = 0 THEN I64Zero
    ELSE IF x[2] >= 0
         THEN <<x[1] \div 2^(24 - x[2]), (x[1] % 2^(24 - x[2])) * 2^(x[2])>>
         ELSE IF x[2] <= -24 THEN I64Zero
              ELSE <<0, x[1] \div 2^(-x[2])>>

----------------------------------------------------------------------------
(* constants of iscoinalpha1.hpp                                            *)

ONE_MINUTE == 60

update_interval == ONE_MINUTE

\* 0.75f
ISSUE_PROPORTION == <<12582912, -24>>

\* 1.0f - ISSUE_PROPORTION, exact in binary32
boost_proportion == <<B23, -25>>

stake_count == 6

stake_durations ==
    <<1 * ONE_MINUTE, 3 * ONE_MINUTE, 6 * ONE_MINUTE,
      12 * ONE_MINUTE, 12 * 2 * ONE_MINUTE, 12 * 5 * ONE_MINUTE>>

stake_weights == <<50, 60, 75, 100, 100, 100>>

\* 0.01 converted to float
transaction_fee == <<10737418, -30>>

\* 0.7f
transaction_fee_to_stakers == <<11744051, -24>>

boost_interval == ONE_MINUTE * 2

boost_count == 312

\* 66.0f
boost_divisor == <<8650752, -17>>

\* exp(boost_lambda * next_boost) for next_boost = 1 .. boost_count + 1, with
\* boost_lambda = -0.015f: the float exp of the float product, correctly
\* rounded (the contract stops at boost_count)
ExpBoost ==
<<
    <<16527436, -24>>, <<16281374, -24>>, <<16038976, -24>>, <<15800187, -24>>,
    <<15564953, -24>>, <<15333221, -24>>, <<15104939, -24>>, <<14880056, -24>>,
    <<14658521, -24>>, <<14440284, -24>>, <<14225296, -24>>, <<14013509, -24>>,
    <<13804875, -24>>, <<13599347, -24>>, <<13396879, -24>>, <<13197426, -24>>,
    <<13000942, -24>>, <<12807383, -24>>, <<12616706, -24>>, <<12428868, -24>>,
    <<12243826, -24>>, <<12061539, -24>>, <<11881966, -24>>, <<11705067, -24>>,
    <<11530801, -24>>, <<11359130, -24>>, <<11190014, -24>>, <<11023417, -24>>,
    <<10859299, -24>>, <<10697625, -24>>, <<10538358, -24>>, <<10381463, -24>>,
    <<10226903, -24>>, <<10074644, -24>>, <<9924652, -24>>, <<9776894, -24>>,
    <<9631334, -24>>, <<9487943, -24>>, <<9346686, -24>>, <<9207532, -24>>,
    <<9070449, -24>>, <<8935408, -24>>, <<8802377, -24>>, <<8671327, -24>>,
    <<8542227, -24>>, <<8415050, -24>>, <<16579533, -25>>, <<16332696, -25>>,
    <<16089534, -25>>, <<15849991, -25>>, <<15614016, -25>>, <<15381554, -25>>,
    <<15152552, -25>>, <<14926960, -25>>, <<14704726, -25>>, <<14485802, -25>>,
    <<14270136, -25>>, <<14057681, -25>>, <<13848390, -25>>, <<13642214, -25>>,
    <<13439108, -25>>, <<13239026, -25>>, <<13041922, -25>>, <<12847754, -25>>,
    <<12656476, -25>>, <<12468045, -25>>, <<12282420, -25>>, <<12099559, -25>>,
    <<11919420, -25>>, <<11741963, -25>>, <<11567148, -25>>, <<11394936, -25>>,
    <<11225286, -25>>, <<11058164, -25>>, <<10893529, -25>>, <<10731346, -25>>,
    <<10571577, -25>>, <<10414187, -25>>, <<10259140, -25>>, <<10106401, -25>>,
    <<9955937, -25>>, <<9807711, -25>>, <<9661694, -25>>, <<9517850, -25>>,
    <<9376148, -25>>, <<9236555, -25>>, <<9099041, -25>>, <<8963574, -25>>,
    <<8830124, -25>>, <<8698659, -25>>, <<8569153, -25>>, <<8441575, -25>>,
    <<16631794, -26>>, <<16384179, -26>>, <<16140251, -26>>, <<15899954, -26>>,
    <<15663234, -26>>, <<15430040, -26>>, <<15200315, -26>>, <<14974012, -26>>,
    <<14751078, -26>>, <<14531463, -26>>, <<14315118, -26>>, <<14101994, -26>>,
    <<13892043, -26>>, <<13685217, -26>>, <<13481470, -26>>, <<13280757, -26>>,
    <<13083032, -26>>, <<12888252, -26>>, <<12696371, -26>>, <<12507346, -26>>,
    <<12321137, -26>>, <<12137699, -26>>, <<11956992, -26>>, <<11778975, -26>>,
    <<11603609, -26>>, <<11430854, -26>>, <<11260671, -26>>, <<11093021, -26>>,
    <<10927868, -26>>, <<10765173, -26>>, <<10604901, -26>>, <<10447013, -26>>,
    <<10291478, -26>>, <<10138258, -26>>, <<9987319, -26>>, <<9838627, -26>>,
    <<9692149, -26>>, <<9547852, -26>>, <<9405703, -26>>, <<9265671, -26>>,
    <<9127722, -26>>, <<8991828, -26>>, <<8857958, -26>>, <<8726079, -26>>,
    <<8596164, -26>>, <<8468185, -26>>, <<16684219, -27>>, <<16435825, -27>>,
    <<16191126, -27>>, <<15950074, -27>>, <<15712606, -27>>, <<15478678, -27>>,
    <<15248229, -27>>, <<15021211, -27>>, <<14797576, -27>>, <<14577267, -27>>,
    <<14360242, -27>>, <<14146444, -27>>, <<13935833, -27>>, <<13728354, -27>>,
    <<13523967, -27>>, <<13322620, -27>>, <<13124271, -27>>, <<12928878, -27>>,
    <<12736391, -27>>, <<12546772, -27>>, <<12359974, -27>>, <<12175959, -27>>,
    <<11994682, -27>>, <<11816106, -27>>, <<11640186, -27>>, <<11466885, -27>>,
    <<11296166, -27>>, <<11127987, -27>>, <<10962315, -27>>, <<10799106, -27>>,
    <<10638330, -27>>, <<10479944, -27>>, <<10323917, -27>>, <<10170215, -27>>,
    <<10018800, -27>>, <<9869640, -27>>, <<9722700, -27>>, <<9577949, -27>>,
    <<9435351, -27>>, <<9294878, -27>>, <<9156494, -27>>, <<9020171, -27>>,
    <<8885879, -27>>, <<8753585, -27>>, <<8623262, -27>>, <<8494877, -27>>,
    <<16736813, -28>>, <<16487632, -28>>, <<16242165, -28>>, <<16000349, -28>>,
    <<15762134, -28>>, <<15527468, -28>>, <<15296293, -28>>, <<15068563, -28>>,
    <<14844219, -28>>, <<14623220, -28>>, <<14405507, -28>>, <<14191039, -28>>,
    <<13979760, -28>>, <<13771627, -28>>, <<13566596, -28>>, <<13364614, -28>>,
    <<13165643, -28>>, <<12969631, -28>>, <<12776540, -28>>, <<12586321, -28>>,
    <<12398933, -28>>, <<12214339, -28>>, <<12032490, -28>>, <<11853351, -28>>,
    <<11676876, -28>>, <<11503032, -28>>, <<11331773, -28>>, <<11163066, -28>>,
    <<10996869, -28>>, <<10833145, -28>>, <<10671862, -28>>, <<10512978, -28>>,
    <<10356461, -28>>, <<10202273, -28>>, <<10050382, -28>>, <<9900750, -28>>,
    <<9753349, -28>>, <<9608139, -28>>, <<9465092, -28>>, <<9324176, -28>>,
    <<9185356, -28>>, <<9048605, -28>>, <<8913888, -28>>, <<8781179, -28>>,
    <<8650443, -28>>, <<8521656, -28>>, <<8394784, -28>>, <<16539603, -29>>,
    <<16293362, -29>>, <<16050784, -29>>, <<15811821, -29>>, <<15576412, -29>>,
    <<15344511, -29>>, <<15116060, -29>>, <<14891009, -29>>, <<14669313, -29>>,
    <<14450914, -29>>, <<14235770, -29>>, <<14023825, -29>>, <<13815040, -29>>,
    <<13609359, -29>>, <<13406744, -29>>, <<13207142, -29>>, <<13010512, -29>>,
    <<12816812, -29>>, <<12625994, -29>>, <<12438019, -29>>, <<12252840, -29>>,
    <<12070420, -29>>, <<11890714, -29>>, <<11713686, -29>>, <<11539290, -29>>,
    <<11367492, -29>>, <<11198253, -29>>, <<11031532, -29>>, <<10867295, -29>>,
    <<10705501, -29>>, <<10546118, -29>>, <<10389106, -29>>, <<10234434, -29>>,
    <<10082062, -29>>, <<9931958, -29>>, <<9784090, -29>>, <<9638425, -29>>,
    <<9494929, -29>>, <<9353569, -29>>, <<9214309, -29>>, <<9077127, -29>>,
    <<8941988, -29>>, <<8808856, -29>>, <<8677710, -29>>, <<8548517, -29>>,
    <<8421247, -29>>, <<16591737, -30>>, <<16344720, -30>>, <<16101381, -30>>,
    <<15861665, -30>>, <<15625510, -30>>, <<15392879, -30>>, <<15163711, -30>>,
    <<14937947, -30>>, <<14715552, -30>>, <<14496468, -30>>, <<14280646, -30>>,
    <<14068030, -30>>, <<13858586, -30>>, <<13652260, -30>>, <<13449000, -30>>,
    <<13248772, -30>>, <<13051525, -30>>, <<12857215, -30>>, <<12665792, -30>>,
    <<12477224, -30>>, <<12291464, -30>>, <<12108464, -30>>, <<11928194, -30>>,
    <<11750608, -30>>, <<11575666, -30>>, <<11403323, -30>>, <<11233551, -30>>,
    <<11066307, -30>>, <<10901552, -30>>, <<10739246, -30>>, <<10579360, -30>>,
    <<10421856, -30>>, <<10266691, -30>>, <<10113841, -30>>, <<9963267, -30>>,
    <<9814935, -30>>
>>

----------------------------------------------------------------------------
(* names, symbols, assets                                                   *)

\* the contract account (_self) and two client accounts; every one of them
\* is an existing chain account (is_account)
Self == "inspace"

Names == {Self, "alice", "bob"}

Sym(code, precision) == [code |-> code, precision |-> precision]

Asset(amount, symbol) == [amount |-> amount, symbol |-> symbol]

\* asset::operator+= and -= check that both symbols are equal
SameSymbol(a, b) == a.symbol = b.symbol

\* a multi_index as a function from the primary key to the row
Emplace(table, key, row) == [k \in DOMAIN table \cup {key} |-> IF k = key THEN row ELSE table[k]]

Erase(table, key) == [k \in DOMAIN table \ {key} |-> table[k]]

EmptyTable == [k \in {} |-> 0]

VARIABLES
    now,          \* now(): the head block time, seconds
    statstable,   \* stats: symbol code -> currency_stats
    accounts,     \* accounts: owner -> (symbol code -> account)
    stakes,       \* stakes: staker -> (id -> stake)
    stake_stats,  \* stakestats: symbol code -> (staker -> stake_stat)
    deferred,     \* the deferred transactions sent by update and not yet run
    nactions      \* number of client actions applied so far

vars == <<now, statstable, accounts, stakes, stake_stats, deferred, nactions>>

\* the four tables as one value, ok = FALSE once an eosio_assert has failed
\* (the action then has no effect at all)
DB == [ok |-> TRUE, statstable |-> statstable, accounts |-> accounts,
       stakes |-> stakes, stake_stats |-> stake_stats]

Abort(db) == [db EXCEPT !.ok = FALSE]

----------------------------------------------------------------------------
(* the private functions of the contract                                    *)

add_balance(db, owner, value) ==
    LET to_acnts == db.accounts[owner]
        code == value.symbol.code
    IN  IF code \notin DOMAIN to_acnts
        THEN [db EXCEPT !.accounts[owner] = Emplace(to_acnts, code, [balance |-> value])]
        ELSE IF ~SameSymbol(to_acnts[code].balance, value) THEN Abort(db)
        ELSE [db EXCEPT !.accounts[owner][code].balance.amount = I64Add(@, value.amount)]

get_stake(db, staker, symbol) ==
    LET stake_stats_table == db.stake_stats[symbol.code]
    IN  IF staker \notin DOMAIN stake_stats_table
        THEN Asset(I64Zero, symbol)
        ELSE stake_stats_table[staker].total_stake

get_stake_weight(db, staker, symbol) ==
    LET stake_stats_table == db.stake_stats[symbol.code]
    IN  IF staker \notin DOMAIN stake_stats_table
        THEN I64Zero
        ELSE stake_stats_table[staker].stake_weight

\* get_balance asserts that the account row exists
has_balance(db, owner, code) == code \in DOMAIN db.accounts[owner]

get_balance(db, owner, code) == db.accounts[owner][code].balance

get_unstaked_balance(db, owner, symbol) ==
    Asset(I64Sub(get_balance(db, owner, symbol.code).amount,
                 get_stake(db, owner, symbol).amount), symbol)

\* the first loop of distribute: the sum of the stake weights
RECURSIVE total_weight_of(_, _)
total_weight_of(table, stakers) ==
    IF stakers = {} THEN I64Zero
    ELSE LET s == CHOOSE x \in stakers : TRUE
         IN  I64Add(table[s].stake_weight, total_weight_of(table, stakers \ {s}))

\* (int64_t)(quantity.amount * proportion), proportion = (float)staker_weight / total_weight
amount_for_staker(amount, staker_weight, total_weight) ==
    I64FromF32(F32Mul(F32FromI64(amount),
                      F32Div(F32FromI64(staker_weight), F32FromI64(total_weight))))

\* the second loop of distribute; the result carries amount_distributed
RECURSIVE distribute_loop(_, _, _, _, _)
distribute_loop(db, quantity, stakers, total_weight, amount_distributed) ==
    IF stakers = {} \/ ~db.ok
    THEN [db |-> db, amount_distributed |-> amount_distributed]
    ELSE LET staker == CHOOSE x \in stakers : TRUE
             w == db.stake_stats[quantity.symbol.code][staker].stake_weight
             a == amount_for_staker(quantity.amount, w, total_weight)
         IN  distribute_loop(add_balance(db, staker, Asset(a, quantity.symbol)),
                             quantity, stakers \ {staker}, total_weight,
                             I64Add(amount_distributed, a))

\* mutant: with no weight to share it, the quantity is reported as distributed
distribute_all(db, quantity) ==
    LET stake_stats_table == db.stake_stats[quantity.symbol.code]
        total_weight == total_weight_of(stake_stats_table, DOMAIN stake_stats_table)
    IN  IF total_weight = I64Zero
        THEN [db |-> db, amount_distributed |-> quantity.amount]
        ELSE distribute_loop(db, quantity, DOMAIN stake_stats_table, total_weight, I64Zero)

distribute(db, quantity) ==
    LET stake_stats_table == db.stake_stats[quantity.symbol.code]
        total_weight == total_weight_of(stake_stats_table, DOMAIN stake_stats_table)
    IN  IF total_weight = I64Zero
        THEN [db |-> db, amount_distributed |-> I64Zero]
        ELSE distribute_loop(db, quantity, DOMAIN stake_stats_table, total_weight, I64Zero)

\* (int64_t)(value.amount * transaction_fee)
transaction_fee_amount_of(value) ==
    I64FromF32(F32Mul(F32FromI64(value.amount), transaction_fee))

\* the asset that sub_balance hands to distribute
transaction_fee_stakers_asset(value) ==
    Asset(I64FromF32(F32Mul(transaction_fee_to_stakers,
                            F32FromI64(transaction_fee_amount_of(value)))),
          value.symbol)

\* mutant: the fee is not taken from the sender
debit_net(db, owner, value) ==
    [db EXCEPT !.accounts[owner][value.symbol.code].balance.amount =
                   I64Sub(@, value.amount)]

\* a.balance.amount -= total_amount
debit(db, owner, value) ==
    [db EXCEPT !.accounts[owner][value.symbol.code].balance.amount =
                   I64Sub(@, I64Add(value.amount, transaction_fee_amount_of(value)))]

sub_balance(db, owner, value) ==
    LET code == value.symbol.code
    IN  IF ~has_balance(db, owner, code) THEN Abort(db)
        ELSE
        LET from == db.accounts[owner][code]
            stake == get_stake(db, owner, value.symbol)
            transaction_fee_amount == transaction_fee_amount_of(value)
            total_amount == I64Add(value.amount, transaction_fee_amount)
        IN  IF I64Less(I64Sub(from.balance.amount, stake.amount), total_amount)
            THEN Abort(db)
            ELSE
            LET d == distribute(debit(db, owner, value), transaction_fee_stakers_asset(value))
                transaction_fee_remaining ==
                    I64Sub(transaction_fee_amount, d.amount_distributed)
            IN  IF I64Less(I64Zero, transaction_fee_remaining)
                THEN add_balance(d.db, Self, Asset(transaction_fee_remaining, value.symbol))
                ELSE d.db

issue(db, quantity) ==
    LET code == quantity.symbol.code
    IN  IF code \notin DOMAIN db.statstable THEN Abort(db)
        ELSE
        LET st == db.statstable[code]
        IN  IF \/ ~I64Less(I64Zero, quantity.amount)
               \/ quantity.symbol # st.supply.symbol
               \/ I64Less(I64Sub(st.max_supply.amount, st.supply.amount), quantity.amount)
            THEN Abort(db)
            ELSE add_balance(
                    [db EXCEPT !.statstable[code].supply.amount = I64Add(@, quantity.amount)],
                    Self, quantity)

add_stake(db, staker, quantity, duration_index, t) ==
    LET code == quantity.symbol.code
    IN  IF \/ staker \notin Names
           \/ ~(duration_index < stake_count)
           \/ code \notin DOMAIN db.statstable
        THEN Abort(db)
        ELSE
        IF \/ ~I64Less(I64Zero, quantity.amount)
           \/ quantity.symbol # db.statstable[code].supply.symbol
           \/ ~has_balance(db, staker, code)
        THEN Abort(db)
        ELSE
        IF I64Less(get_unstaked_balance(db, staker, quantity.symbol).amount, quantity.amount)
        THEN Abort(db)
        ELSE
        LET staker_stakes == db.stakes[staker]
            \* available_primary_key(): 0 for an empty table, else the largest id + 1
            id == IF DOMAIN staker_stakes = {} THEN 0
                  ELSE 1 + CHOOSE i \in DOMAIN staker_stakes :
                               \A j \in DOMAIN staker_stakes : j <= i
            s == [id |-> id, quantity |-> quantity, start |-> t,
                  duration_index |-> duration_index]
            db1 == [db EXCEPT !.stakes[staker] = Emplace(staker_stakes, id, s)]
            weight == I64(stake_weights[duration_index + 1])
            stake_stats_table == db.stake_stats[code]
        IN  IF staker \notin DOMAIN stake_stats_table
            THEN [db1 EXCEPT !.stake_stats[code] =
                     Emplace(stake_stats_table, staker,
                             [staker |-> staker, total_stake |-> quantity,
                              stake_weight |-> weight])]
            ELSE [db1 EXCEPT !.stake_stats[code][staker] =
                     [@ EXCEPT !.total_stake.amount = I64Add(@, quantity.amount),
                               !.stake_weight = I64Add(@, weight)]]

\* mutant: a stake is kept through the second in which it expires
Expired_late(stk, t) == stk.start + stake_durations[stk.duration_index + 1] < t

\* the test of update_stakes on one stake record
Expired(stk, t) == stk.start + stake_durations[stk.duration_index + 1] <= t

\* the inner loop of update_stakes over one staker's records: the records
\* that stay, and total_stake / this_stake_weight over those of the symbol
LiveStakes(stakestable, symbol, t) ==
    {i \in DOMAIN stakestable :
        stakestable[i].quantity.symbol = symbol /\ ~Expired(stakestable[i], t)}

\* mutant: every visited record of the symbol is erased
KeptStakes_none(stakestable, symbol, t) ==
    {i \in DOMAIN stakestable : stakestable[i].quantity.symbol # symbol}

KeptStakes(stakestable, symbol, t) ==
    {i \in DOMAIN stakestable :
        stakestable[i].quantity.symbol # symbol \/ ~Expired(stakestable[i], t)}

RECURSIVE SumQuantity(_, _)
SumQuantity(stakestable, ids) ==
    IF ids = {} THEN I64Zero
    ELSE LET i == CHOOSE x \in ids : TRUE
         IN  I64Add(stakestable[i].quantity.amount, SumQuantity(stakestable, ids \ {i}))

RECURSIVE SumWeight(_, _)
SumWeight(stakestable, ids) ==
    IF ids = {} THEN I64Zero
    ELSE LET i == CHOOSE x \in ids : TRUE
         IN  I64Add(I64MulSmall(stakestable[i].quantity.amount,
                                stake_weights[stakestable[i].duration_index + 1]),
                    SumWeight(stakestable, ids \ {i}))

RECURSIVE update_stakes_loop(_, _, _, _)
update_stakes_loop(db, symbol, t, stakers) ==
    IF stakers = {} THEN db
    ELSE LET staker == CHOOSE x \in stakers : TRUE
             stakestable == db.stakes[staker]
             live == LiveStakes(stakestable, symbol, t)
             total_stake == SumQuantity(stakestable, live)
             this_stake_weight == SumWeight(stakestable, live)
             kept == KeptStakes(stakestable, symbol, t)
             db1 == [db EXCEPT !.stakes[staker] = [i \in kept |-> stakestable[i]]]
             db2 == IF total_stake = I64Zero
                    THEN [db1 EXCEPT !.stake_stats[symbol.code] = Erase(@, staker)]
                    ELSE [db1 EXCEPT !.stake_stats[symbol.code][staker] =
                             [@ EXCEPT !.total_stake = Asset(total_stake, symbol),
                                       !.stake_weight = this_stake_weight]]
         IN  update_stakes_loop(db2, symbol, t, stakers \ {staker})

update_stakes(db, symbol, t) ==
    update_stakes_loop(db, symbol, t, DOMAIN db.stake_stats[symbol.code])

\* mutant: the whole of max_supply taken as the pool of the boosts
total_boost_whole(max_supply_amount) == max_supply_amount

\* (int64_t)(boost_proportion() * st.max_supply.amount)
total_boost_of(max_supply_amount) ==
    I64FromF32(F32Mul(boost_proportion, F32FromI64(max_supply_amount)))

\* mutant: the schedule read from its end
current_boost_amount_rising(next_boost, total_boost) ==
    I64FromF32(F32Mul(F32Div(ExpBoost[boost_count + 1 - next_boost], boost_divisor),
                      F32FromI64(total_boost)))

\* (exp(boost_lambda*next_boost)/boost_divisor) * total_boost, converted to int64_t
current_boost_amount_of(next_boost, total_boost) ==
    I64FromF32(F32Mul(F32Div(ExpBoost[next_boost], boost_divisor), F32FromI64(total_boost)))

\* mutant: an off-by-one in the end of the schedule
boosts_exhausted_late(next_boost) == next_boost > boost_count + 1

\* if (next_boost > boost_count) return;
boosts_exhausted(next_boost) == next_boost > boost_count

\* mutant: the due time taken from the boosts already made
boost_due_early(st, next_boost, t) == st.created + st.boosts * boost_interval <= t

\* if (next_boost_time <= current_time)
boost_due(st, next_boost, t) == st.created + next_boost * boost_interval <= t

\* if (st.supply.amount + current_boost_asset.amount > st.max_supply.amount) return;
exceeds_max_supply(st, current_boost_asset) ==
    I64Less(st.max_supply.amount, I64Add(st.supply.amount, current_boost_asset.amount))

\* mutant: the slip s.supply += st.max_supply
supply_after_boost_max(st, current_boost_asset) ==
    I64Add(st.supply.amount, st.max_supply.amount)

\* mutant: the emission of the index added a second time
supply_after_boost_twice(st, current_boost_asset) ==
    I64Add(I64Add(st.supply.amount, current_boost_asset.amount), current_boost_asset.amount)

\* s.supply += current_boost_asset
supply_after_boost(st, current_boost_asset) ==
    I64Add(st.supply.amount, current_boost_asset.amount)

update_boost(db, symbol, t) ==
    IF symbol.code \notin DOMAIN db.statstable THEN Abort(db)
    ELSE
    LET st == db.statstable[symbol.code]
        next_boost == st.boosts + 1
    IN  IF boosts_exhausted(next_boost) THEN db
        ELSE IF ~boost_due(st, next_boost, t) THEN db
        ELSE
        LET total_boost == total_boost_of(st.max_supply.amount)
            current_boost_asset ==
                Asset(current_boost_amount_of(next_boost, total_boost), symbol)
        IN  IF exceeds_max_supply(st, current_boost_asset) THEN db
            ELSE IF ~SameSymbol(st.supply, current_boost_asset) THEN Abort(db)
            ELSE
            LET db1 == [db EXCEPT !.statstable[symbol.code] =
                           [@ EXCEPT !.supply.amount =
                                         supply_after_boost(st, current_boost_asset),
                                     !.updated = t,
                                     !.boosts = next_boost]]
                d == distribute(db1, current_boost_asset)
                remainder == I64Sub(current_boost_asset.amount, d.amount_distributed)
            IN  IF I64Less(I64Zero, remainder)
                THEN add_balance(d.db, Self, Asset(remainder, symbol))
                ELSE d.db

----------------------------------------------------------------------------
(* the actions of the contract, as functions of the tables                  *)

create_body(db, maximum_supply, t) ==
    LET sym == maximum_supply.symbol
    IN  IF \/ ~I64Less(I64Zero, maximum_supply.amount)
           \/ sym.code \in DOMAIN db.statstable
        THEN Abort(db)
        ELSE
        LET db1 == [db EXCEPT !.statstable =
                       Emplace(@, sym.code,
                               [supply |-> Asset(I64Zero, sym),
                                max_supply |-> maximum_supply,
                                created |-> t, updated |-> t, boosts |-> 0])]
            issue_amount ==
                I64FromF32(F32Mul(F32FromI64(maximum_supply.amount), ISSUE_PROPORTION))
        IN  issue(db1, Asset(issue_amount, sym))

transfer_body(db, from, to, quantity, memo_size) ==
    IF \/ from = to
       \/ to \notin Names
       \/ quantity.symbol.code \notin DOMAIN db.statstable
    THEN Abort(db)
    ELSE
    IF \/ ~I64Less(I64Zero, quantity.amount)
       \/ quantity.symbol # db.statstable[quantity.symbol.code].supply.symbol
       \/ memo_size > 256
    THEN Abort(db)
    ELSE
    LET db1 == sub_balance(db, from, quantity)
    IN  IF ~db1.ok THEN db1 ELSE add_balance(db1, to, quantity)

\* SEND_INLINE_ACTION only queues the transfer: the inline action runs once
\* the body of transferstkd has returned, so add_stake is evaluated first;
\* both belong to one transaction, which fails as a whole
transferstkd_body(db, from, to, quantity, memo_size, duration_index, t) ==
    LET db1 == add_stake(db, to, quantity, duration_index, t)
    IN  IF ~db1.ok THEN db1 ELSE transfer_body(db1, from, to, quantity, memo_size)

open_body(db, owner, symbol) ==
    IF symbol.code \notin DOMAIN db.statstable THEN Abort(db)
    ELSE IF db.statstable[symbol.code].supply.symbol # symbol THEN Abort(db)
    ELSE IF symbol.code \in DOMAIN db.accounts[owner] THEN db
    ELSE [db EXCEPT !.accounts[owner] =
             Emplace(@, symbol.code, [balance |-> Asset(I64Zero, symbol)])]

\* mutant: the balance of the record is not looked at
close_body_any(db, owner, symbol) ==
    IF symbol.code \notin DOMAIN db.accounts[owner] THEN Abort(db)
    ELSE [db EXCEPT !.accounts[owner] = Erase(@, symbol.code)]

close_body(db, owner, symbol) ==
    IF symbol.code \notin DOMAIN db.accounts[owner] THEN Abort(db)
    ELSE IF db.accounts[owner][symbol.code].balance.amount # I64Zero THEN Abort(db)
    ELSE [db EXCEPT !.accounts[owner] = Erase(@, symbol.code)]

\* update_stakes, then update_boost
update_body(db, symbol, t) ==
    LET db1 == update_stakes(db, symbol, t)
    IN  update_boost(db1, symbol, t)

\* out.send(_self.value + now(), _self): the sender id, given as its offset
\* from _self.value; send fails when a deferred transaction of this sender
\* with the same id is still pending
sender_id_of(t) == t

CanSend(pending, t) == \A d \in pending : d.sender_id # sender_id_of(t)

Scheduled(symbol, t) ==
    [sender_id |-> sender_id_of(t), delay_until |-> t + update_interval, symbol |-> symbol]

Commit(db) ==
    /\ db.ok
    /\ statstable' = db.statstable
    /\ accounts' = db.accounts
    /\ stakes' = db.stakes
    /\ stake_stats' = db.stake_stats

----------------------------------------------------------------------------
(* the state machine                                                        *)

\* bounds of the exploration
MaxActions == 4

MaxNow == 120

Init ==
    /\ now = 0
    /\ statstable = EmptyTable
    /\ accounts = [n \in Names |-> EmptyTable]
    /\ stakes = [n \in Names |-> EmptyTable]
    /\ stake_stats = [c \in {"TOK"} |-> EmptyTable]
    /\ deferred = {}
    /\ nactions = 0

\* the clients push at most MaxActions actions on a created token (create
\* needs no budget: it succeeds once per symbol code)
ClientAction == nactions < MaxActions /\ nactions' = nactions + 1

create(maximum_supply) ==
    /\ Commit(create_body(DB, maximum_supply, now))
    /\ UNCHANGED <<now, deferred, nactions>>

transfer(from, to, quantity, memo_size) ==
    /\ Commit(transfer_body(DB, from, to, quantity, memo_size))
    /\ UNCHANGED <<now, deferred>>

transferstkd(from, to, quantity, memo_size, duration_index) ==
    /\ Commit(transferstkd_body(DB, from, to, quantity, memo_size, duration_index, now))
    /\ UNCHANGED <<now, deferred>>

open(owner, symbol) ==
    /\ Commit(open_body(DB, owner, symbol))
    /\ UNCHANGED <<now, deferred>>

close(owner, symbol) ==
    /\ Commit(close_body(DB, owner, symbol))
    /\ UNCHANGED <<now, deferred>>

addstake(staker, quantity, duration_index) ==
    /\ Commit(add_stake(DB, staker, quantity, duration_index, now))
    /\ UNCHANGED <<now, deferred>>

\* update pushed by the contract account itself
update(symbol) ==
    /\ CanSend(deferred, now)
    /\ Commit(update_body(DB, symbol, now))
    /\ deferred' = deferred \cup {Scheduled(symbol, now)}
    /\ UNCHANGED now

\* a deferred update whose delay has elapsed is run by the chain; the
\* generated transaction is removed before it is applied
update_deferred(d) ==
    /\ d \in deferred
    /\ d.delay_until <= now
    /\ CanSend(deferred \ {d}, now)
    /\ Commit(update_body(DB, d.symbol, now))
    /\ deferred' = (deferred \ {d}) \cup {Scheduled(d.symbol, now)}
    /\ UNCHANGED <<now, nactions>>

\* a deferred update that fails is dropped with no effect on the tables
update_deferred_fails(d) ==
    /\ d \in deferred
    /\ d.delay_until <= now
    /\ ~(CanSend(deferred \ {d}, now) /\ update_body(DB, d.symbol, now).ok)
    /\ deferred' = deferred \ {d}
    /\ UNCHANGED <<now, statstable, accounts, stakes, stake_stats, nactions>>

\* the head block time advances
Tick(seconds) ==
    /\ now' = now + seconds
    /\ UNCHANGED <<statstable, accounts, stakes, stake_stats, deferred, nactions>>

----------------------------------------------------------------------------
(* the ledger under a few client actions                                    *)

TOK == Sym("TOK", 4)

\* the same symbol code with another precision
TOK2 == Sym("TOK", 2)

MaxSupplies == {Asset(I64(0), TOK), Asset(I64(1), TOK), Asset(I64(40000), TOK)}

Quantities == {Asset(I64(1000), TOK), Asset(I64(1000), TOK2)}

StakeQuantities == {Asset(I64(300), TOK)}

DurationIndices == {0, 1, stake_count}

MemoSizes == {0, 257}

Next ==
    \/ \E m \in MaxSupplies : create(m)
    \/ ClientAction /\ \E from, to \in Names, q \in Quantities, ms \in MemoSizes :
          transfer(from, to, q, ms)
    \/ ClientAction /\ \E from, to \in Names, q \in StakeQuantities, i \in DurationIndices :
          transferstkd(from, to, q, 0, i)
    \/ ClientAction /\ \E o \in Names, s \in {TOK, TOK2} : open(o, s)
    \/ ClientAction /\ \E o \in Names, s \in {TOK, TOK2} : close(o, s)
    \/ ClientAction /\ \E n \in Names, q \in StakeQuantities, i \in DurationIndices :
          addstake(n, q, i)
    \/ ClientAction /\ \E s \in {TOK, TOK2} : update(s)
    \/ \E d \in deferred : update_deferred(d)
    \/ \E d \in deferred : update_deferred_fails(d)
    \/ now + ONE_MINUTE <= MaxNow /\ Tick(ONE_MINUTE)

Spec == Init /\ [][Next]_vars

----------------------------------------------------------------------------
(* the same ledger with a supply of 10^10 units (1,000,000.0000 TOK)        *)

LargeSupply == Asset(I64MulSmall(I64(100000000), 100), TOK)

LargeQuantities == {Asset(I64(1000), TOK)}

LargeStakeQuantities == {Asset(I64(100), TOK)}

NextLarge ==
    \/ create(LargeSupply)
    \/ ClientAction /\ \E to \in Names \ {Self}, q \in LargeQuantities : transfer(Self, to, q, 0)
    \/ ClientAction /\ \E n \in Names, q \in LargeStakeQuantities, i \in {0, 1} : addstake(n, q, i)
    \/ ClientAction /\ \E s \in {TOK, TOK2} : update(s)
    \/ \E d \in deferred : update_deferred(d)
    \/ \E d \in deferred : update_deferred_fails(d)
    \/ now + ONE_MINUTE <= MaxNow /\ Tick(ONE_MINUTE)

SpecLarge == Init /\ [][NextLarge]_vars

----------------------------------------------------------------------------
(* the boost schedule to its end: the token, one staker, and the chain of   *)
(* deferred updates run minute by minute                                    *)

BoostSupplies == {Asset(I64(400), TOK), Asset(I64(40000), TOK)}

BoostStakeQuantities == {Asset(I64(300), TOK)}

\* the last boost is due boost_count * boost_interval after create
BoostHorizon == boost_count * boost_interval + MaxNow + update_interval

\* the chain is served before the clock moves on; without a chain the clock
\* idles up to MaxNow only
TickBoost ==
    /\ \A d \in deferred : d.delay_until > now
    /\ IF deferred = {} THEN now + ONE_MINUTE <= MaxNow
       ELSE now + ONE_MINUTE <= BoostHorizon
    /\ Tick(ONE_MINUTE)

\* the clients act during the first MaxNow seconds only
NextBoost ==
    \/ now <= MaxNow /\ \E m \in BoostSupplies : create(m)
    \/ now <= MaxNow /\ ClientAction /\ \E q \in BoostStakeQuantities : addstake(Self, q, stake_count - 1)
    \/ now <= MaxNow /\ ClientAction /\ \E s \in {TOK, TOK2} : update(s)
    \/ \E d \in deferred : update_deferred(d)
    \/ \E d \in deferred : update_deferred_fails(d)
    \/ TickBoost

SpecBoost == Init /\ [][NextBoost]_vars

----------------------------------------------------------------------------
(* fees shared among stakers: the reserve pays two members, the reserve and *)
(* one member stake, and the fee of each further transfer is distributed    *)

MaxDistActions == 5

DistSupply == Asset(I64(40000), TOK)

DistQuantities == {Asset(I64(200), TOK), Asset(I64(1000), TOK), Asset(I64(15900), TOK)}

DistStakeQuantities == {Asset(I64(300), TOK)}

DistAction == nactions < MaxDistActions /\ nactions' = nactions + 1

NextDist ==
    \/ create(DistSupply)
    \/ DistAction /\ \E to \in Names \ {Self}, q \in DistQuantities : transfer(Self, to, q, 0)
    \/ DistAction /\ \E n \in {Self, "alice"}, q \in DistStakeQuantities, i \in {0, 1, 2} :
          addstake(n, q, i)

SpecDist == Init /\ [][NextDist]_vars

----------------------------------------------------------------------------
(* the maintenance job under a fair scheduler: the reserve stakes for one   *)
(* minute and pushes updates during the first MaxNow seconds, then only the *)
(* clock and the deferred transactions run, until every such stake is due   *)

LiveSupply == Asset(I64(40000), TOK)

LiveStakeQuantities == {Asset(I64(300), TOK)}

LiveHorizon == MaxNow + stake_durations[1] + update_interval

TickLive == now + ONE_MINUTE <= LiveHorizon /\ Tick(ONE_MINUTE)

RunDeferred == \E d \in deferred : update_deferred(d)

DropDeferred == \E d \in deferred : update_deferred_fails(d)

NextLive ==
    \/ create(LiveSupply)
    \/ now <= MaxNow /\ ClientAction /\ \E q \in LiveStakeQuantities : addstake(Self, q, 0)
    \/ now <= MaxNow /\ ClientAction /\ \E s \in {TOK, TOK2} : update(s)
    \/ RunDeferred
    \/ DropDeferred
    \/ TickLive

\* the clock advances and a deferred transaction that is due is run
SpecLive ==
    /\ Init
    /\ [][NextLive]_vars
    /\ WF_vars(TickLive)
    /\ WF_vars(RunDeferred)
    /\ WF_vars(DropDeferred)

----------------------------------------------------------------------------
(* transfers between all parties, stakers and the reserve included, of      *)
(* small quantities and of one above 2^24 units                             *)

FeeQuantities ==
    {Asset(I64(500), TOK), Asset(I64(1000), TOK), Asset(I64(42359399), TOK)}

FeeStakeQuantities == {Asset(I64(300), TOK)}

NextFee ==
    \/ create(LargeSupply)
    \/ ClientAction /\ \E from, to \in Names, q \in FeeQuantities : transfer(from, to, q, 0)
    \/ ClientAction /\ \E n \in Names, q \in FeeStakeQuantities : addstake(n, q, 0)

SpecFee == Init /\ [][NextFee]_vars

----------------------------------------------------------------------------
(* properties                                                               *)

Codes == DOMAIN statstable

BalanceOf(owner, code) ==
    IF code \in DOMAIN accounts[owner] THEN accounts[owner][code].balance.amount
    ELSE I64Zero

RECURSIVE SumBalances(_, _)
SumBalances(owners, code) ==
    IF owners = {} THEN I64Zero
    ELSE LET o == CHOOSE x \in owners : TRUE
         IN  I64Add(BalanceOf(o, code), SumBalances(owners \ {o}, code))

\* C1: after every completed action the supply of a symbol equals the sum of
\* the balances of all accounts of that symbol.
C1_Conservation ==
    \A c \in Codes : statstable[c].supply.amount = SumBalances(Names, c)

\* C2: in every reachable state supply <= max_supply, for every created
\* symbol: neither the issue made by create nor any number of boosts pushes
\* the supply above the cap.
C2_SupplyCap ==
    \A c \in Codes : I64Leq(statstable[c].supply.amount, statstable[c].max_supply.amount)

\* every boost of the schedule has been minted on top of the initial issue
C2_Witness ==
    \E c \in Codes :
        /\ statstable[c].boosts = boost_count
        /\ I64Less(I64(39000), statstable[c].supply.amount)

\* C10: boosts never decreases and never exceeds boost_count; once boosts
\* equals boost_count no step changes supply or boosts any more.
C10_BoostMonotone ==
    [][\A c \in Codes :
          /\ c \in DOMAIN statstable'
          /\ statstable'[c].boosts >= statstable[c].boosts
          /\ statstable'[c].boosts <= boost_count
          /\ statstable[c].boosts = boost_count =>
                /\ statstable'[c].boosts = boost_count
                /\ statstable'[c].supply = statstable[c].supply]_vars

\* an update has run after the last boost: it was accepted at the current
\* time (its successor is pending) and the last boost is older
C10_Witness ==
    \E c \in Codes :
        /\ statstable[c].boosts = boost_count
        /\ statstable[c].updated < now
        /\ \E d \in deferred : d.sender_id = sender_id_of(now)

StakeOf(owner, code) ==
    IF owner \in DOMAIN stake_stats[code] THEN stake_stats[code][owner].total_stake.amount
    ELSE I64Zero

\* C3: in every reachable state, for every owner and symbol,
\* 0 <= total_stake(owner) <= balance(owner): the unstaked balance is never
\* negative and no balance is negative.
C3_StakeWithinBalance ==
    \A c \in Codes : \A o \in Names :
        /\ I64Leq(I64Zero, StakeOf(o, c))
        /\ I64Leq(StakeOf(o, c), BalanceOf(o, c))

\* an amount below 2^31 as a number
ToInt(a) == a[1] * B24 + a[2]

StoredStakes(owner, code) ==
    {i \in DOMAIN stakes[owner] : stakes[owner][i].quantity.symbol.code = code}

NonExpiredStakes(owner, code) ==
    {i \in StoredStakes(owner, code) :
        stakes[owner][i].start + stake_durations[stakes[owner][i].duration_index + 1] > now}

\* C4: after every completed action, the stake_weight of every StakeStat
\* equals the sum, over the owner's Stake records of the symbol, of
\* weight_table[duration_index] * quantity.amount.
C4_WeightInvariant ==
    \A c \in Codes : \A o \in DOMAIN stake_stats[c] :
        stake_stats[c][o].stake_weight = SumWeight(stakes[o], StoredStakes(o, c))

\* C5 as stated: in every reachable state, at every value of now, the
\* total_stake of (owner, symbol) equals the sum of the quantities of the
\* owner's non-expired Stakes of the symbol.
C5_TotalAlways ==
    \A c \in Codes : \A o \in Names :
        StakeOf(o, c) = SumQuantity(stakes[o], NonExpiredStakes(o, c))

C5_Recomputed(c) ==
    \A o \in DOMAIN stake_stats[c] :
        /\ stake_stats[c][o].total_stake.amount =
              SumQuantity(stakes[o], NonExpiredStakes(o, c))
        /\ StoredStakes(o, c) = NonExpiredStakes(o, c)

\* C5: right after every run of update with the token's own symbol, pushed
\* or deferred, the total_stake of every StakeStat equals the sum of the
\* quantities of the owner's non-expired Stakes of the symbol, and the owner
\* has no expired Stake of the symbol left.
C5_TotalAfterUpdate ==
    [][\A c \in Codes :
          (\/ update(statstable[c].supply.symbol)
           \/ \E d \in deferred :
                 d.symbol = statstable[c].supply.symbol /\ update_deferred(d))
          => C5_Recomputed(c)']_vars

\* an update accepted at the current time has removed the first stake of an
\* owner and kept a later one
C5_Witness ==
    \E c \in Codes : \E o \in DOMAIN stake_stats[c] :
        /\ \E d \in deferred :
              d.sender_id = sender_id_of(now) /\ d.symbol = statstable[c].supply.symbol
        /\ StoredStakes(o, c) # {}
        /\ 0 \notin StoredStakes(o, c)
        /\ \E i \in StoredStakes(o, c) : stakes[o][i].start = now

\* the distribute call made by sub_balance when from transfers value
FeeCall(from, value) ==
    LET q == transaction_fee_stakers_asset(value)
        db1 == debit(DB, from, value)
        table == stake_stats[value.symbol.code]
    IN  [quantity |-> q,
         total_weight |-> total_weight_of(table, DOMAIN table),
         before |-> db1,
         result |-> distribute(db1, q)]

Credit(call, o) ==
    LET code == call.quantity.symbol.code
    IN  ToInt(call.result.db.accounts[o][code].balance.amount)
          - ToInt(call.before.accounts[o][code].balance.amount)

\* C6: distribute(q) with total weight W > 0 credits every staker with
\* exactly floor(q.amount * stake_weight / W) and returns the sum of the
\* credits, which lies between 0 and q.amount (here for the fee portions
\* distributed by the transfers).
C6_FloorShares ==
    [][\A to \in Names, value \in DistQuantities :
          transfer(Self, to, value, 0) =>
             LET call == FeeCall(Self, value)
                 W == ToInt(call.total_weight)
                 table == stake_stats[value.symbol.code]
             IN  W > 0 =>
                   /\ \A o \in DOMAIN table :
                         Credit(call, o) =
                            (ToInt(call.quantity.amount) * ToInt(table[o].stake_weight)) \div W
                   /\ I64Leq(I64Zero, call.result.amount_distributed)
                   /\ I64Leq(call.result.amount_distributed, call.quantity.amount)]_vars

\* C7 as stated: distribute returns 0 if and only if the total stake weight
\* is 0, for every quantity handed to it by a transfer.
C7_ZeroIffNoWeight ==
    [][\A to \in Names, value \in DistQuantities :
          transfer(Self, to, value, 0) =>
             LET call == FeeCall(Self, value)
             IN  (call.result.amount_distributed = I64Zero)
                    <=> (call.total_weight = I64Zero)]_vars

\* C7: when the total stake weight is 0, distribute returns 0 and credits
\* nobody (so a positive return implies a positive total weight).
C7_NoWeightNoCredit ==
    [][\A to \in Names, value \in DistQuantities :
          transfer(Self, to, value, 0) =>
             LET call == FeeCall(Self, value)
             IN  call.total_weight = I64Zero =>
                    /\ call.result.amount_distributed = I64Zero
                    /\ call.result.db = call.before]_vars

\* a transfer of 1000 has been made with no staker: the whole fee, 10, is
\* back with the reserve
C7_Witness ==
    /\ stake_stats["TOK"] = EmptyTable
    /\ BalanceOf("alice", "TOK") = I64(1000)
    /\ BalanceOf(Self, "TOK") = I64(29000)

SameOutcome(a, b) == a.ok = b.ok /\ (a.ok => a = b)

\* C8: transferstkd(from, to, quantity, memo, duration_index) has the effect
\* of the transfer followed by add_stake(to, quantity, duration_index) on
\* the recipient's post-transfer balance, and succeeds whenever that
\* sequence does.
C8_TransferThenStake ==
    \A from, to \in Names, q \in StakeQuantities, i \in 0 .. stake_count - 1 :
        SameOutcome(transferstkd_body(DB, from, to, q, 0, i, now),
                    add_stake(transfer_body(DB, from, to, q, 0), to, q, i, now))

\* C9: create(max_supply) succeeds for every valid symbol with no
\* CurrencyStats and max_supply.amount > 0; it leaves supply ==
\* floor(max_supply * 0.75) > 0 (the supply until the first boost), so that
\* 0 < supply <= max_supply for every created symbol.
C9_CreateSucceeds ==
    /\ \A m \in MaxSupplies :
          (I64Less(I64Zero, m.amount) /\ m.symbol.code \notin DOMAIN statstable)
             => ENABLED create(m)
    /\ \A c \in Codes :
          LET st == statstable[c]
              supply4 == I64MulSmall(st.supply.amount, 4)
              max3 == I64MulSmall(st.max_supply.amount, 3)
          IN  /\ I64Less(I64Zero, st.supply.amount)
              /\ I64Leq(st.supply.amount, st.max_supply.amount)
              /\ st.boosts = 0 =>
                    /\ I64Leq(supply4, max3)
                    /\ I64Less(max3, I64Add(supply4, I64(4)))

\* the emission of index k for the token of code c, and the amount minted
\* by a step
EmissionAt(c, k) ==
    current_boost_amount_of(k, total_boost_of(statstable[c].max_supply.amount))

Minted(c) == I64Sub(statstable'[c].supply.amount, statstable[c].supply.amount)

\* C11 as stated: the emission minted at index j is strictly smaller than
\* the emission of every index i < j.
C11_StrictDecay ==
    [][\A c \in Codes :
          statstable'[c].boosts = statstable[c].boosts + 1 =>
             \A i \in 1 .. statstable[c].boosts :
                I64Less(Minted(c), EmissionAt(c, i))]_vars

\* C11: the emission minted at index j is never larger than the emission
\* of any index i < j.
C11_Decay ==
    [][\A c \in Codes :
          statstable'[c].boosts = statstable[c].boosts + 1 =>
             \A i \in 1 .. statstable[c].boosts :
                I64Leq(Minted(c), EmissionAt(c, i))]_vars

\* the first two boosts of a pool of 10000 have been minted: 149, then 147
C11_Witness ==
    \E c \in Codes :
        /\ statstable[c].boosts = 2
        /\ statstable[c].supply.amount = I64(30296)

\* the tables after one and after two runs of update(symbol) at now
UpdatedOnce(symbol) == update_body(DB, symbol, now)

UpdatedTwice(symbol) == update_body(UpdatedOnce(symbol), symbol, now)

\* C12: when update(symbol) runs twice at the same now with no addstake in
\* between, the second run leaves every StakeStat entry and every Stake
\* record exactly as the first run left them.
C12_IdempotentExpiry ==
    \A symbol \in {TOK, TOK2} :
        (UpdatedOnce(symbol).ok /\ UpdatedTwice(symbol).ok) =>
           /\ UpdatedTwice(symbol).stake_stats = UpdatedOnce(symbol).stake_stats
           /\ UpdatedTwice(symbol).stakes = UpdatedOnce(symbol).stakes

\* an owner holds a stake whose lock period has elapsed next to one that is
\* still locked: the first run has records to delete and totals to rewrite
C12_Witness ==
    \E c \in Codes : \E o \in DOMAIN stake_stats[c] :
        /\ NonExpiredStakes(o, c) # {}
        /\ StoredStakes(o, c) # NonExpiredStakes(o, c)

\* a step that is a completed run of update(symbol), pushed or deferred
UpdateRun(symbol) ==
    \/ update(symbol)
    \/ \E d \in deferred : d.symbol = symbol /\ update_deferred(d)

\* the records of an owner that a run of update(symbol) at now must leave
Survivors(o, symbol) ==
    {i \in DOMAIN stakes[o] :
        ~(/\ stakes[o][i].quantity.symbol = symbol
          /\ stakes[o][i].start + stake_durations[stakes[o][i].duration_index + 1] <= now)}

SurvivorsOf(o, symbol) ==
    {i \in Survivors(o, symbol) : stakes[o][i].quantity.symbol = symbol}

\* C13: when update(symbol) completes at now, exactly the Stake records of
\* the symbol with start + duration <= now have been deleted, every
\* StakeStat holds the totals of the surviving records, and a StakeStat
\* whose recomputed total is zero has been deleted.
C13_ExpiryPostcondition ==
    [][\A symbol \in {TOK, TOK2} :
          UpdateRun(symbol) =>
             \A o \in Names :
                /\ DOMAIN stakes'[o] = Survivors(o, symbol)
                /\ \A i \in Survivors(o, symbol) : stakes'[o][i] = stakes[o][i]
                /\ o \in DOMAIN stake_stats[symbol.code] =>
                      IF SumQuantity(stakes[o], SurvivorsOf(o, symbol)) = I64Zero
                      THEN o \notin DOMAIN stake_stats'[symbol.code]
                      ELSE /\ o \in DOMAIN stake_stats'[symbol.code]
                           /\ stake_stats'[symbol.code][o].total_stake.amount =
                                 SumQuantity(stakes[o], SurvivorsOf(o, symbol))
                           /\ stake_stats'[symbol.code][o].stake_weight =
                                 SumWeight(stakes[o], SurvivorsOf(o, symbol))]_vars

\* a scheduled update of the token's own symbol is pending
JobPending(c) == \E d \in deferred : d.symbol = statstable[c].supply.symbol

\* C14: once update(symbol) has completed for a created symbol, the chain of
\* scheduled invocations never stops: after every step a successor for the
\* symbol is still pending (so that, under a fair scheduler and an
\* advancing clock, every Stake record is eventually deleted without any
\* client action).
C14_ChainNeverStops ==
    [][\A c \in Codes : JobPending(c) => JobPending(c)']_vars

\* C15: in every reachable state at most one scheduled update job is
\* pending per symbol, also when update is pushed while a scheduled
\* occurrence is still pending.
C15_SingleJob ==
    \A c \in Codes :
        Cardinality({d \in deferred : d.symbol = statstable[c].supply.symbol}) <= 1

\* C20: the sender id under which an invocation of update schedules its
\* successor never equals the sender id of a job that is still pending:
\* the send of an update that is pushed, or of a pending job that is run,
\* in the current second finds no pending job with its id.
C20_UniqueSenderId ==
    /\ \A symbol \in {TOK, TOK2} :
          update_body(DB, symbol, now).ok => CanSend(deferred, now)
    /\ \A d \in deferred :
          (d.delay_until <= now /\ update_body(DB, d.symbol, now).ok)
             => CanSend(deferred \ {d}, now)

\* C16: a successful transfer of q charges fee = floor(q.amount * 1%), hands
\* floor(70% * fee) to distribute and credits the reserve with the fee minus
\* the amount distributed.
C16_FeeSplit ==
    [][\A from, to \in Names, value \in FeeQuantities :
          transfer(from, to, value, 0) =>
             LET call == FeeCall(from, value)
                 code == value.symbol.code
                 fee == ToInt(transaction_fee_amount_of(value))
             IN  /\ fee = ToInt(value.amount) \div 100
                 /\ ToInt(call.quantity.amount) = (70 * fee) \div 100
                 /\ accounts'[Self][code].balance.amount =
                       I64Add(I64Add(call.result.db.accounts[Self][code].balance.amount,
                                     I64Sub(I64(fee), call.result.amount_distributed)),
                              IF to = Self THEN value.amount ELSE I64Zero)]_vars

\* the part of the fee of a transfer of value by from that the action
\* credits to the party x: its share as a staker and, for the reserve, the
\* remainder
FeeCredit(from, value, x) ==
    LET call == FeeCall(from, value)
        code == value.symbol.code
        remaining == I64Sub(transaction_fee_amount_of(value), call.result.amount_distributed)
        share == IF x \in DOMAIN stake_stats[code]
                 THEN I64Sub(call.result.db.accounts[x][code].balance.amount,
                             call.before.accounts[x][code].balance.amount)
                 ELSE I64Zero
    IN  IF x = Self /\ I64Less(I64Zero, remaining) THEN I64Add(share, remaining) ELSE share

\* C17 as stated: after a successful transfer the balance of from is
\* exactly q.amount + fee lower and the balance of to exactly q.amount
\* higher, for every choice of from and to.
C17_NetEffect ==
    [][\A from, to \in Names, value \in FeeQuantities :
          transfer(from, to, value, 0) =>
             LET code == value.symbol.code
                 fee == transaction_fee_amount_of(value)
             IN  /\ BalanceOf(from, code)' =
                       I64Sub(BalanceOf(from, code), I64Add(value.amount, fee))
                 /\ BalanceOf(to, code)' = I64Add(BalanceOf(to, code), value.amount)]_vars

\* C17: after a successful transfer the balance of from is q.amount + fee
\* lower and the balance of to is q.amount higher, up to the part of the fee
\* that the same action credits to that party: nothing for a party that is
\* neither the reserve nor a staker, the undistributed remainder for the
\* reserve, its share for a staker.
C17_NetEffectAndFeeCredit ==
    [][\A from, to \in Names, value \in FeeQuantities :
          transfer(from, to, value, 0) =>
             LET code == value.symbol.code
                 fee == transaction_fee_amount_of(value)
             IN  /\ BalanceOf(from, code)' =
                       I64Add(I64Sub(BalanceOf(from, code), I64Add(value.amount, fee)),
                              FeeCredit(from, value, from))
                 /\ BalanceOf(to, code)' =
                       I64Add(I64Add(BalanceOf(to, code), value.amount),
                              FeeCredit(from, value, to))
                 /\ \A x \in {from, to} :
                       (x # Self /\ x \notin DOMAIN stake_stats[code])
                          => FeeCredit(from, value, x) = I64Zero]_vars

\* alice, paid 1000 by the reserve, has transferred 500 to bob with no
\* staker around: she is 505 lower, he is 500 higher
C17_Witness ==
    /\ stake_stats["TOK"] = EmptyTable
    /\ BalanceOf("alice", "TOK") = I64(495)
    /\ BalanceOf("bob", "TOK") = I64(500)

\* a step that runs update(symbol), pushed by a client or by the chain
UpdateStep ==
    \/ \E symbol \in {TOK, TOK2} : update(symbol)
    \/ \E d \in deferred : update_deferred(d)

\* supply, updated, boosts and every balance of the token c are as before
BoostFrame(c) ==
    /\ statstable'[c].supply = statstable[c].supply
    /\ statstable'[c].updated = statstable[c].updated
    /\ statstable'[c].boosts = statstable[c].boosts
    /\ \A n \in Names : BalanceOf(n, c)' = BalanceOf(n, c)

\* C18: the emission with index k is performed only at a time now >=
\* created + k * boost_interval, one index at a time; an update that finds
\* the next index above boost_count, or the next boost time still ahead,
\* leaves supply, updated, boosts and every balance unchanged.
C18_BoostTiming ==
    [][\A c \in Codes :
          LET st == statstable[c]
          IN  /\ statstable'[c].boosts # st.boosts =>
                    /\ statstable'[c].boosts = st.boosts + 1
                    /\ statstable'[c].boosts \in 1..boost_count
                    /\ now >= st.created + statstable'[c].boosts * boost_interval
              /\ (boosts_exhausted(st.boosts + 1) \/ ~boost_due(st, st.boosts + 1, now))
                    => (BoostFrame(c) \/ ~UpdateStep)]_vars

\* between two emissions: the first is made, the second is not yet due, and
\* an update accepted at the current time (its successor is pending) has
\* left the time of the last emission in place
C18_Witness ==
    \E c \in Codes :
        /\ statstable[c].boosts = 1
        /\ ~boost_due(statstable[c], 2, now)
        /\ statstable[c].updated < now
        /\ \E d \in deferred : d.sender_id = sender_id_of(now)

\* C21: in every reachable state an owner has a StakeStat of a symbol if and
\* only if it has at least one Stake record of that symbol in the store, and
\* no StakeStat with total_stake = 0 persists.
C21_StakeStatCoverage ==
    \A c \in Codes : \A o \in Names :
        /\ o \in DOMAIN stake_stats[c] <=> StoredStakes(o, c) # {}
        /\ o \in DOMAIN stake_stats[c] =>
              stake_stats[c][o].total_stake.amount # I64Zero

-----------------------------------------------------------------------------
(* is.protocoin, the older variant of the token: the same tables, a stake   *)
(* carries its duration in seconds, a transfer pays no fee and there is no  *)
(* boost                                                                    *)

\* the weight of a stake of the given duration
protocoin_stake_weight(duration) ==
    IF \E i \in 1..stake_count : stake_durations[i] = duration
    THEN stake_weights[CHOOSE i \in 1..stake_count : stake_durations[i] = duration]
    ELSE 0

protocoin_add_balance(db, owner, value) ==
    LET to_acnts == db.accounts[owner]
        code == value.symbol.code
    IN  IF code \notin DOMAIN to_acnts
        THEN [db EXCEPT !.accounts[owner] = Emplace(to_acnts, code, [balance |-> value])]
        ELSE IF ~SameSymbol(to_acnts[code].balance, value) THEN Abort(db)
        ELSE [db EXCEPT !.accounts[owner][code].balance.amount = I64Add(@, value.amount)]

\* eosio_assert( from.balance.amount >= value.amount, "overdrawn balance" )
protocoin_sub_balance(db, owner, value) ==
    LET code == value.symbol.code
    IN  IF code \notin DOMAIN db.accounts[owner] THEN Abort(db)
        ELSE IF I64Less(db.accounts[owner][code].balance.amount, value.amount) THEN Abort(db)
        ELSE IF ~SameSymbol(db.accounts[owner][code].balance, value) THEN Abort(db)
        ELSE [db EXCEPT !.accounts[owner][code].balance.amount = I64Sub(@, value.amount)]

protocoin_issue(db, quantity) ==
    LET code == quantity.symbol.code
    IN  IF code \notin DOMAIN db.statstable THEN Abort(db)
        ELSE
        LET st == db.statstable[code]
        IN  IF \/ ~I64Less(I64Zero, quantity.amount)
               \/ quantity.symbol # st.supply.symbol
               \/ I64Less(I64Sub(st.max_supply.amount, st.supply.amount), quantity.amount)
            THEN Abort(db)
            ELSE protocoin_add_balance(
                    [db EXCEPT !.statstable[code].supply.amount = I64Add(@, quantity.amount)],
                    Self, quantity)

protocoin_get_stake(db, staker, symbol) ==
    LET stake_stats_table == db.stake_stats[symbol.code]
    IN  IF staker \notin DOMAIN stake_stats_table
        THEN Asset(I64Zero, symbol)
        ELSE stake_stats_table[staker].total_stake

\* get_balance asserts that the account row exists
protocoin_get_unstaked_balance(db, owner, symbol) ==
    Asset(I64Sub(db.accounts[owner][symbol.code].balance.amount,
                 protocoin_get_stake(db, owner, symbol).amount), symbol)

protocoin_create_body(db, maximum_supply) ==
    LET sym == maximum_supply.symbol
    IN  IF \/ ~I64Less(I64Zero, maximum_supply.amount)
           \/ sym.code \in DOMAIN db.statstable
        THEN Abort(db)
        ELSE
        LET db1 == [db EXCEPT !.statstable =
                       Emplace(@, sym.code,
                               [supply |-> Asset(I64Zero, sym),
                                max_supply |-> maximum_supply])]
            issue_amount ==
                I64FromF32(F32Mul(F32FromI64(maximum_supply.amount), ISSUE_PROPORTION))
        IN  protocoin_issue(db1, Asset(issue_amount, sym))

protocoin_transfer_body(db, from, to, quantity, memo_size) ==
    IF \/ from = to
       \/ to \notin Names
       \/ quantity.symbol.code \notin DOMAIN db.statstable
    THEN Abort(db)
    ELSE
    IF \/ ~I64Less(I64Zero, quantity.amount)
       \/ quantity.symbol # db.statstable[quantity.symbol.code].supply.symbol
       \/ memo_size > 256
    THEN Abort(db)
    ELSE
    LET db1 == protocoin_sub_balance(db, from, quantity)
    IN  IF ~db1.ok THEN db1 ELSE protocoin_add_balance(db1, to, quantity)

protocoin_open_body(db, owner, symbol) ==
    IF symbol.code \notin DOMAIN db.statstable THEN Abort(db)
    ELSE IF db.statstable[symbol.code].supply.symbol # symbol THEN Abort(db)
    ELSE IF symbol.code \in DOMAIN db.accounts[owner] THEN db
    ELSE [db EXCEPT !.accounts[owner] =
             Emplace(@, symbol.code, [balance |-> Asset(I64Zero, symbol)])]

protocoin_close_body(db, owner, symbol) ==
    IF symbol.code \notin DOMAIN db.accounts[owner] THEN Abort(db)
    ELSE IF db.accounts[owner][symbol.code].balance.amount # I64Zero THEN Abort(db)
    ELSE [db EXCEPT !.accounts[owner] = Erase(@, symbol.code)]

protocoin_addstake_body(db, staker, quantity, duration, t) ==
    LET code == quantity.symbol.code
    IN  IF staker \notin Names \/ code \notin DOMAIN db.statstable THEN Abort(db)
        ELSE
        IF \/ ~I64Less(I64Zero, quantity.amount)
           \/ quantity.symbol # db.statstable[code].supply.symbol
           \/ code \notin DOMAIN db.accounts[staker]
        THEN Abort(db)
        ELSE
        IF I64Less(protocoin_get_unstaked_balance(db, staker, quantity.symbol).amount,
                   quantity.amount)
        THEN Abort(db)
        ELSE
        LET staker_stakes == db.stakes[staker]
            id == IF DOMAIN staker_stakes = {} THEN 0
                  ELSE 1 + CHOOSE i \in DOMAIN staker_stakes :
                               \A j \in DOMAIN staker_stakes : j <= i
            s == [id |-> id, quantity |-> quantity, start |-> t, duration |-> duration]
            db1 == [db EXCEPT !.stakes[staker] = Emplace(staker_stakes, id, s)]
            weight == I64MulSmall(quantity.amount, protocoin_stake_weight(duration))
            stake_stats_table == db.stake_stats[code]
        IN  IF staker \notin DOMAIN stake_stats_table
            THEN [db1 EXCEPT !.stake_stats[code] =
                     Emplace(stake_stats_table, staker,
                             [staker |-> staker, total_stake |-> quantity,
                              stake_weight |-> weight])]
            ELSE [db1 EXCEPT !.stake_stats[code][staker] =
                     [@ EXCEPT !.total_stake.amount = I64Add(@, quantity.amount),
                               !.stake_weight = I64Add(@, weight)]]

\* if (expiryTime <= currentTime) with expiryTime = stk.start + stk.duration
protocoin_Expired(stk, t) == stk.start + stk.duration <= t

RECURSIVE protocoin_SumQuantity(_, _)
protocoin_SumQuantity(stakestable, ids) ==
    IF ids = {} THEN I64Zero
    ELSE LET i == CHOOSE x \in ids : TRUE
         IN  I64Add(stakestable[i].quantity.amount,
                    protocoin_SumQuantity(stakestable, ids \ {i}))

RECURSIVE protocoin_SumWeight(_, _)
protocoin_SumWeight(stakestable, ids) ==
    IF ids = {} THEN I64Zero
    ELSE LET i == CHOOSE x \in ids : TRUE
         IN  I64Add(I64MulSmall(stakestable[i].quantity.amount,
                                protocoin_stake_weight(stakestable[i].duration)),
                    protocoin_SumWeight(stakestable, ids \ {i}))

RECURSIVE protocoin_updatestakes_loop(_, _, _, _)
protocoin_updatestakes_loop(db, symbol, t, stakers) ==
    IF stakers = {} THEN db
    ELSE LET staker == CHOOSE x \in stakers : TRUE
             stakestable == db.stakes[staker]
             live == {i \in DOMAIN stakestable :
                         /\ stakestable[i].quantity.symbol = symbol
                         /\ ~protocoin_Expired(stakestable[i], t)}
             kept == {i \in DOMAIN stakestable :
                         \/ stakestable[i].quantity.symbol # symbol
                         \/ ~protocoin_Expired(stakestable[i], t)}
             total_stake == protocoin_SumQuantity(stakestable, live)
             this_stake_weight == protocoin_SumWeight(stakestable, live)
             db1 == [db EXCEPT !.stakes[staker] = [i \in kept |-> stakestable[i]]]
             db2 == IF total_stake = I64Zero
                    THEN [db1 EXCEPT !.stake_stats[symbol.code] = Erase(@, staker)]
                    ELSE [db1 EXCEPT !.stake_stats[symbol.code][staker] =
                             [@ EXCEPT !.total_stake = Asset(total_stake, symbol),
                                       !.stake_weight = this_stake_weight]]
         IN  protocoin_updatestakes_loop(db2, symbol, t, stakers \ {staker})

protocoin_updatestakes_body(db, symbol, t) ==
    IF symbol.code \notin DOMAIN db.stake_stats THEN db
    ELSE protocoin_updatestakes_loop(db, symbol, t, DOMAIN db.stake_stats[symbol.code])

protocoin_create(maximum_supply) ==
    /\ Commit(protocoin_create_body(DB, maximum_supply))
    /\ UNCHANGED <<now, deferred, nactions>>

protocoin_transfer(from, to, quantity, memo_size) ==
    /\ Commit(protocoin_transfer_body(DB, from, to, quantity, memo_size))
    /\ UNCHANGED <<now, deferred>>

protocoin_open(owner, symbol) ==
    /\ Commit(protocoin_open_body(DB, owner, symbol))
    /\ UNCHANGED <<now, deferred>>

protocoin_close(owner, symbol) ==
    /\ Commit(protocoin_close_body(DB, owner, symbol))
    /\ UNCHANGED <<now, deferred>>

protocoin_addstake(staker, quantity, duration) ==
    /\ Commit(protocoin_addstake_body(DB, staker, quantity, duration, now))
    /\ UNCHANGED <<now, deferred>>

\* updatestakes pushed by the contract account; it sends its successor
protocoin_updatestakes(symbol) ==
    /\ CanSend(deferred, now)
    /\ Commit(protocoin_updatestakes_body(DB, symbol, now))
    /\ deferred' = deferred \cup {Scheduled(symbol, now)}
    /\ UNCHANGED now

\* the deferred updatestakes, run by the chain once its delay has elapsed
protocoin_updatestakes_deferred(d) ==
    /\ d \in deferred
    /\ d.delay_until <= now
    /\ CanSend(deferred \ {d}, now)
    /\ Commit(protocoin_updatestakes_body(DB, d.symbol, now))
    /\ deferred' = (deferred \ {d}) \cup {Scheduled(d.symbol, now)}
    /\ UNCHANGED <<now, nactions>>

\* a deferred updatestakes whose send fails is dropped
protocoin_updatestakes_fails(d) ==
    /\ d \in deferred
    /\ d.delay_until <= now
    /\ ~CanSend(deferred \ {d}, now)
    /\ deferred' = deferred \ {d}
    /\ UNCHANGED <<now, statstable, accounts, stakes, stake_stats, nactions>>

ProtocoinSupply == Asset(I64(40000), TOK)

ProtocoinQuantities == {Asset(I64(10000), TOK), Asset(I64(20000), TOK)}

ProtocoinDurations == {ONE_MINUTE, 2 * ONE_MINUTE}

NextProtocoin ==
    \/ protocoin_create(ProtocoinSupply)
    \/ ClientAction /\ \E from, to \in Names, q \in ProtocoinQuantities :
                          protocoin_transfer(from, to, q, 0)
    \/ ClientAction /\ \E o \in Names : protocoin_open(o, TOK)
    \/ ClientAction /\ \E o \in Names : protocoin_close(o, TOK)
    \/ ClientAction /\ \E n \in Names, q \in ProtocoinQuantities, d \in ProtocoinDurations :
                          protocoin_addstake(n, q, d)
    \/ ClientAction /\ protocoin_updatestakes(TOK)
    \/ \E d \in deferred : protocoin_updatestakes_deferred(d)
    \/ \E d \in deferred : protocoin_updatestakes_fails(d)
    \/ now + ONE_MINUTE <= MaxNow + update_interval /\ Tick(ONE_MINUTE)

SpecProtocoin == Init /\ [][NextProtocoin]_vars

\* C22: in is.protocoin no transfer succeeds that leaves the balance of the
\* sender below its StakeStat.total_stake.
C22_ProtocoinStakedUntransferable ==
    [][\A from, to \in Names, q \in ProtocoinQuantities :
          protocoin_transfer(from, to, q, 0) =>
             I64Leq(StakeOf(from, q.symbol.code)', BalanceOf(from, q.symbol.code)')]_vars

\* the emission that update_boost computes for the next index of the row st
NextEmission(st) ==
    Asset(current_boost_amount_of(st.boosts + 1, total_boost_of(st.max_supply.amount)),
          st.supply.symbol)

\* the skip branch is not taken for the row st
CapAllows(st) ==
    boosts_exhausted(st.boosts + 1) \/ ~exceeds_max_supply(st, NextEmission(st))

\* C23: in every reachable state with boosts < boost_count the next
\* emission satisfies supply + emission <= max_supply, before and after
\* every step, so that an update which finds a boost due performs it.
C23_CapNeverBlocks ==
    [][\A c \in Codes :
          /\ CapAllows(statstable[c])
          /\ CapAllows(statstable'[c])
          /\ (/\ ~boosts_exhausted(statstable[c].boosts + 1)
              /\ boost_due(statstable[c], statstable[c].boosts + 1, now)
              /\ UpdateStep)
                => statstable'[c].boosts = statstable[c].boosts + 1]_vars

\* the last emission is due and not yet made: the supply is at its highest
\* before a boost
C23_Witness ==
    \E c \in Codes :
        /\ statstable[c].boosts = boost_count - 1
        /\ boost_due(statstable[c], boost_count, now)
        /\ I64Less(I64Zero, NextEmission(statstable[c]).amount)

-----------------------------------------------------------------------------
(* updates that come late: the token is created and staked at time 0, then *)
(* the clock runs ahead of the maintenance job, so that several boost times *)
(* have elapsed when an update is run                                       *)

CatchUpSupply == Asset(I64(40000), TOK)

CatchUpStakeQuantities == {Asset(I64(300), TOK)}

CatchUpHorizon == MaxNow + 4 * boost_interval

TickCatchUp == now + ONE_MINUTE <= CatchUpHorizon /\ Tick(ONE_MINUTE)

NextCatchUp ==
    \/ now = 0 /\ create(CatchUpSupply)
    \/ now = 0 /\ ClientAction /\ \E q \in CatchUpStakeQuantities :
                                      addstake(Self, q, stake_count - 1)
    \/ ClientAction /\ \E s \in {TOK, TOK2} : update(s)
    \/ RunDeferred
    \/ DropDeferred
    \/ TickCatchUp

SpecCatchUp == Init /\ [][NextCatchUp]_vars

\* C24: every step raises boosts by at most 1 and mints, when it does, the
\* emission of exactly that next index, at whatever time the update comes;
\* a step that leaves boosts in place mints nothing.
C24_OneBoostPerUpdate ==
    [][\A c \in Codes :
          /\ statstable'[c].boosts \in {statstable[c].boosts, statstable[c].boosts + 1}
          /\ statstable'[c].boosts = statstable[c].boosts + 1 =>
                /\ UpdateStep
                /\ Minted(c) = EmissionAt(c, statstable[c].boosts + 1)
                /\ statstable'[c].updated = now
          /\ statstable'[c].boosts = statstable[c].boosts =>
                Minted(c) = I64Zero]_vars

\* an update has just made the second emission while the times of the third
\* and of the fourth have already elapsed
C24_Witness ==
    \E c \in Codes :
        /\ statstable[c].boosts = 2
        /\ statstable[c].updated = now
        /\ boost_due(statstable[c], 4, now)

\* C25: an owner with a StakeStat of a symbol has an Account of that symbol
\* with a positive balance, so close fails for it and distribute and
\* get_unstaked_balance find the record; a successful close erases one
\* Account with balance 0, of an owner without a StakeStat, and changes
\* nothing else.
C25_CloseSparesStakers ==
    [][/\ \A c \in Codes : \A o \in DOMAIN stake_stats'[c] :
             /\ c \in DOMAIN accounts'[o]
             /\ I64Less(I64Zero, accounts'[o][c].balance.amount)
       /\ \A o \in Names, s \in {TOK, TOK2} :
             close(o, s) =>
                /\ o \notin DOMAIN stake_stats[s.code]
                /\ accounts[o][s.code].balance.amount = I64Zero
                /\ accounts' = [accounts EXCEPT ![o] = Erase(@, s.code)]
                /\ UNCHANGED <<statstable, stakes, stake_stats, deferred, now>>]_vars

\* alice holds a stake, so that a close of her Account fails, while bob,
\* whose Account is empty, can close his
C25_Witness ==
    /\ "alice" \in DOMAIN stake_stats["TOK"]
    /\ ~close_body(DB, "alice", TOK).ok
    /\ close_body(DB, "bob", TOK).ok

====
